---- MODULE Spec2Model ----
(***************************************************************************)
(* protoc-gen-types-only: the option parser, the enum and message shape    *)
(* generators and the file emitter of protoc-gen-es-plugin.ts, together    *)
(* with the second generateTs of the repository (src/unnamed/part_001),    *)
(* which also embeds the file descriptor and declares extensions.          *)
(*                                                                         *)
(* A line handed to f.print(...) is the sequence of its Printable          *)
(* arguments; an output unit is a name and the sequence of its lines.      *)
(***************************************************************************)
EXTENDS Integers, Sequences, FiniteSets, TLC

VARIABLES
    pc,           \* position of the plugin invocation
    options,      \* RawPluginOptions: the (key, value) pairs given to parseOptions
    result,       \* what parseOptions produced: a return value or a thrown value
    schema,       \* Schema.files: the descriptor model
    opts,         \* Schema.options: the Options record of this run
    plugin,       \* which generateTs runs: "es" (protoc-gen-es-plugin.ts) or "part_001"
    bootstrapWkt, \* the runtime is imported from a path outside @bufbuild/protobuf
    out,          \* the output units of the current run, in creation order
    fi,           \* index of the file the loop of generateTs is at
    ti,           \* index of the next type of that file
    run,          \* number of the current generation run
    prevOut,      \* the output units of the previous run
    prevOpts,     \* the Options record of the previous run
    shape         \* the declaration last handed to a shape generator, and its lines

vars == <<pc, options, result, schema, opts, plugin, bootstrapWkt, out, fi, ti,
          run, prevOut, prevOpts, shape>>

(***************************************************************************)
(* Bounds                                                                  *)
(***************************************************************************)
MaxOptions == 3
MaxFields == 2
MaxValues == 2
MaxFiles == 2
MaxRuns == 2

(***************************************************************************)
(* Sequences                                                               *)
(***************************************************************************)
SeqsUpTo(S, n) == UNION {[1..k -> S] : k \in 0..n}

Distinct(s) == \A a, b \in DOMAIN s : a # b => s[a] # s[b]

\* Array.prototype.indexOf: 0-based index of the first element equal to x, -1 if none
indexOf(s, x) ==
    IF \E k \in DOMAIN s : s[k] = x
    THEN (CHOOSE k \in DOMAIN s : s[k] = x /\ \A j \in 1..(k - 1) : s[j] # x) - 1
    ELSE -1

RECURSIVE Flatten(_)
Flatten(ss) == IF ss = <<>> THEN <<>> ELSE Head(ss) \o Flatten(Tail(ss))

(***************************************************************************)
(* Option Parser                                                           *)
(***************************************************************************)
OptionValues == {"true", "1", "false", "0", "True", "", "maybe"}
OptionPairs ==
    [key : {"json_types"}, value : OptionValues]
        \cup [key : {"unknown"}, value : {"x", "true"}]

NoThrow == [type |-> "none", message |-> ""]

\* parseOptionsLoop with "jsonTypes = jsonTypes || ..." for the assignment:
\* an earlier "true" is never taken back
RECURSIVE parseOptionsLoop_sticky(_, _, _)
parseOptionsLoop_sticky(raw, i, jsonTypes) ==
    IF i > Len(raw)
    THEN [kind |-> "return", value |-> {[jsonTypes |-> jsonTypes]}, thrown |-> NoThrow]
    ELSE LET key == raw[i].key
             value == raw[i].value
         IN  IF key = "json_types"
             THEN IF value \notin {"true", "1", "false", "0"}
                  THEN [kind |-> "throw", value |-> {},
                        thrown |-> [type |-> "string",
                                    message |-> "please provide true or false"]]
                  ELSE parseOptionsLoop_sticky(raw, i + 1,
                                               jsonTypes \/ value \in {"true", "1"})
             ELSE [kind |-> "throw", value |-> {},
                   thrown |-> [type |-> "Error", message |-> ""]]

\* parseOptionsLoop with a default case that ignores the unknown key
RECURSIVE parseOptionsLoop_ignoreUnknown(_, _, _)
parseOptionsLoop_ignoreUnknown(raw, i, jsonTypes) ==
    IF i > Len(raw)
    THEN [kind |-> "return", value |-> {[jsonTypes |-> jsonTypes]}, thrown |-> NoThrow]
    ELSE LET key == raw[i].key
             value == raw[i].value
         IN  IF key = "json_types"
             THEN IF value \notin {"true", "1", "false", "0"}
                  THEN [kind |-> "throw", value |-> {},
                        thrown |-> [type |-> "string",
                                    message |-> "please provide true or false"]]
                  ELSE parseOptionsLoop_ignoreUnknown(raw, i + 1, value \in {"true", "1"})
             ELSE parseOptionsLoop_ignoreUnknown(raw, i + 1, jsonTypes)

\* the loop of parseOptions from pair i on, with the local jsonTypes
RECURSIVE parseOptionsLoop(_, _, _)
parseOptionsLoop(raw, i, jsonTypes) ==
    IF i > Len(raw)
    THEN [kind |-> "return", value |-> {[jsonTypes |-> jsonTypes]}, thrown |-> NoThrow]
    ELSE LET key == raw[i].key
             value == raw[i].value
         IN  IF key = "json_types"
             THEN IF value \notin {"true", "1", "false", "0"}
                  THEN [kind |-> "throw", value |-> {},
                        thrown |-> [type |-> "string",
                                    message |-> "please provide true or false"]]
                  ELSE parseOptionsLoop(raw, i + 1, value \in {"true", "1"})
             ELSE [kind |-> "throw", value |-> {},
                   thrown |-> [type |-> "Error", message |-> ""]]

parseOptions(raw) == parseOptionsLoop(raw, 1, FALSE)

NoResult == [kind |-> "none", value |-> {}, thrown |-> NoThrow]

(***************************************************************************)
(* Printables: the arguments of f.print                                    *)
(***************************************************************************)
Printable(kind, a, b, c, n, flag) ==
    [kind |-> kind, a |-> a, b |-> b, c |-> c, n |-> n, flag |-> flag]

Str(s) == Printable("string", s, "", "", 0, FALSE)
Num(n) == Printable("number", "", "", "", n, FALSE)

\* f.jsDoc(desc, indent): the documentation block of a descriptor; the
\* framework adds @deprecated for a deprecated descriptor
jsDoc(desc, indent) == Printable("es_jsdoc", desc.kind, desc.name, indent, 0, desc.deprecated)

\* f.export(declaration, name)
export(declaration, name) == Printable("es_export_stmt", declaration, name, "", 0, FALSE)

\* f.string(value): a string literal
string(value) == Printable("es_string", value, "", "", 0, FALSE)

\* f.runtime.JsonObject, f.runtime.JsonValue, f.runtime.codegen.*
runtime(symbol) == Printable("es_symbol", symbol, "", "", 0, FALSE)

\* a reference to the generated shape of a message or enum
shapeRef(typeName) == Printable("es_shape_ref", typeName, "", "", 0, FALSE)
jsonRef(typeName) == Printable("es_json_ref", typeName, "", "", 0, FALSE)

\* f.importShape(desc).name, f.importSchema(desc).name
importShape(desc) == [name |-> desc.name]
importSchema(desc) ==
    [name |-> IF desc.kind = "file" THEN "file_" \o desc.name
              ELSE IF desc.kind = "message" THEN desc.name \o "Schema"
              ELSE desc.name]

blank == <<>>

(***************************************************************************)
(* Characters of the JSON names of the model, for the two regular          *)
(* expressions of generateMessageJsonShape                                 *)
(***************************************************************************)
Chars(s) ==
    CASE s = "" -> <<>>
      [] s = "id" -> <<"i", "d">>
      [] s = "name" -> <<"n", "a", "m", "e">>
      [] s = "2fa" -> <<"2", "f", "a">>
      [] s = "user-id" -> <<"u", "s", "e", "r", "-", "i", "d">>
      [] s = "child" -> <<"c", "h", "i", "l", "d">>
      [] s = "tags_$" -> <<"t", "a", "g", "s", "_", "$">>
      [] s = "value" -> <<"v", "a", "l", "u", "e">>

DigitChars == {"0", "1", "2", "3", "4", "5", "6", "7", "8", "9"}
LetterChars ==
    {"a", "b", "c", "d", "e", "f", "g", "h", "i", "j", "k", "l", "m",
     "n", "o", "p", "q", "r", "s", "t", "u", "v", "w", "x", "y", "z",
     "A", "B", "C", "D", "E", "F", "G", "H", "I", "J", "K", "L", "M",
     "N", "O", "P", "Q", "R", "S", "T", "U", "V", "W", "X", "Y", "Z"}

\* /^[0-9]/.test(s)
startWithNumber(s) == Len(Chars(s)) > 0 /\ Chars(s)[1] \in DigitChars

\* /[^a-zA-Z0-9_$]/.test(s)
containsSpecialChar(s) ==
    \E k \in DOMAIN Chars(s) : Chars(s)[k] \notin LetterChars \cup DigitChars \cup {"_", "$"}

(***************************************************************************)
(* Descriptors                                                             *)
(***************************************************************************)
Field(name, localName, jsonName, fieldKind, scalar, message, proto3Optional, oneof) ==
    [kind |-> "field", name |-> name, localName |-> localName, jsonName |-> jsonName,
     fieldKind |-> fieldKind, scalar |-> scalar, message |-> message,
     proto3Optional |-> proto3Optional, oneof |-> oneof, deprecated |-> FALSE]

FieldUniverse ==
    { Field("id", "id", "id", "scalar", "int64", "", TRUE, FALSE),
      Field("name", "name", "name", "scalar", "string", "", FALSE, FALSE),
      Field("two_fa", "twoFa", "2fa", "scalar", "bool", "", FALSE, FALSE),
      Field("user_id", "userId", "user-id", "scalar", "int32", "", FALSE, TRUE),
      Field("child", "child", "child", "message", "", "pkg.Child", FALSE, FALSE),
      Field("tags", "tags", "tags_$", "list", "bytes", "", FALSE, FALSE) }

FieldSeqs == {s \in SeqsUpTo(FieldUniverse, MaxFields) : Distinct(s)}

EnumValue(name, number, deprecated) ==
    [kind |-> "enum_value", name |-> name, localName |-> name, number |-> number,
     deprecated |-> deprecated]

EnumValueUniverse ==
    { EnumValue("ZERO", 0, FALSE), EnumValue("TEN", 10, FALSE),
      EnumValue("ALIAS", 10, TRUE), EnumValue("NEG", -1, FALSE) }

EnumValueSeqs == {s \in SeqsUpTo(EnumValueUniverse, MaxValues) : Distinct(s)}

\* a declared type of a file: a message, an enum or an extension; an
\* extension is itself field-like, its own field view is fields[1]
Desc(kind, name, typeName, deprecated, fields, values, extendee) ==
    [kind |-> kind, name |-> name, typeName |-> typeName, deprecated |-> deprecated,
     fields |-> fields, values |-> values, extendee |-> extendee]

WellKnownTypeNames ==
    {"google.protobuf.Any", "google.protobuf.Timestamp", "google.protobuf.Duration",
     "google.protobuf.FieldMask", "google.protobuf.Struct", "google.protobuf.Value",
     "google.protobuf.ListValue", "google.protobuf.Empty"}

WrapperTypeNames ==
    {"google.protobuf.Int64Value", "google.protobuf.StringValue",
     "google.protobuf.BoolValue"}

WrappedScalar(typeName) ==
    CASE typeName = "google.protobuf.Int64Value" -> "int64"
      [] typeName = "google.protobuf.StringValue" -> "string"
      [] typeName = "google.protobuf.BoolValue" -> "bool"

ShortName(typeName) ==
    CASE typeName = "google.protobuf.Any" -> "Any"
      [] typeName = "google.protobuf.Timestamp" -> "Timestamp"
      [] typeName = "google.protobuf.Duration" -> "Duration"
      [] typeName = "google.protobuf.FieldMask" -> "FieldMask"
      [] typeName = "google.protobuf.Struct" -> "Struct"
      [] typeName = "google.protobuf.Value" -> "Value"
      [] typeName = "google.protobuf.ListValue" -> "ListValue"
      [] typeName = "google.protobuf.Empty" -> "Empty"
      [] typeName = "google.protobuf.Int64Value" -> "Int64Value"
      [] typeName = "google.protobuf.StringValue" -> "StringValue"
      [] typeName = "google.protobuf.BoolValue" -> "BoolValue"

RecordMessages ==
    {Desc("message", "User", "pkg.User", d, fs, <<>>, "") :
        d \in BOOLEAN, fs \in FieldSeqs}

WellKnownMessages ==
    {Desc("message", ShortName(t), t, FALSE, fs, <<>>, "") :
        t \in WellKnownTypeNames, fs \in FieldSeqs}

WrapperMessages ==
    {Desc("message", ShortName(t), t, FALSE,
          <<Field("value", "value", "value", "scalar", WrappedScalar(t), "", FALSE, FALSE)>>,
          <<>>, "") : t \in WrapperTypeNames}

Messages == RecordMessages \cup WellKnownMessages \cup WrapperMessages

Enums ==
    {Desc("enum", "Level", "pkg.Level", d, <<>>, vs, "") :
        d \in BOOLEAN, vs \in EnumValueSeqs}

Extensions ==
    {Desc("extension", "note", "pkg.note", FALSE,
          <<Field("note", "note", "note", "scalar", "string", "", FALSE, FALSE)>>,
          <<>>, "pkg.User")}

DescUniverse == Messages \cup Enums \cup Extensions

NoDesc == Desc("none", "", "", FALSE, <<>>, <<>>, "")

File(name, types, dependencies, bootable) ==
    [kind |-> "file", name |-> name, deprecated |-> FALSE, types |-> types,
     dependencies |-> dependencies, bootable |-> bootable]

UserMessage ==
    Desc("message", "User", "pkg.User", FALSE,
         <<Field("id", "id", "id", "scalar", "int64", "", TRUE, FALSE),
           Field("name", "name", "name", "scalar", "string", "", FALSE, FALSE)>>,
         <<>>, "")
LevelEnum ==
    Desc("enum", "Level", "pkg.Level", FALSE, <<>>,
         <<EnumValue("TEN", 10, FALSE), EnumValue("ZERO", 0, FALSE)>>, "")
NoteExtension == CHOOSE e \in Extensions : TRUE
TimestampMessage ==
    Desc("message", "Timestamp", "google.protobuf.Timestamp", FALSE, <<>>, <<>>, "")

FileUniverse ==
    { File("a", <<UserMessage, LevelEnum, NoteExtension>>, <<>>, FALSE),
      File("b", <<NoteExtension, TimestampMessage, LevelEnum>>, <<"a">>, FALSE),
      File("google/protobuf/descriptor", <<LevelEnum>>, <<>>, TRUE),
      File("empty", <<>>, <<>>, FALSE) }

\* the descriptor models of the model: the lists of distinct files, and
\* every declaration of DescUniverse alone in a file
Schemas ==
    {s \in SeqsUpTo(FileUniverse, MaxFiles) : Distinct(s)}
        \cup {<<File("single", <<d>>, <<>>, FALSE)>> : d \in DescUniverse}

\* schema.typesInFile(file): the declared types of the file, in declaration order
typesInFile(file) == file.types

(***************************************************************************)
(* Field Type Mapper (util.ts)                                             *)
(***************************************************************************)
scalarTypeScriptType(scalar) ==
    CASE scalar = "int64" -> "string | number"
      [] scalar = "int32" -> "number"
      [] scalar = "bool" -> "boolean"
      [] scalar = "string" -> "string"
      [] scalar = "bytes" -> "string"

scalarJsonType(scalar) ==
    CASE scalar = "int64" -> "string"
      [] scalar = "int32" -> "number"
      [] scalar = "bool" -> "boolean"
      [] scalar = "string" -> "string"
      [] scalar = "bytes" -> "string"

\* fieldTypeScriptType(field, f.runtime): the type expression and the optional flag
fieldTypeScriptType(field) ==
    [typing |->
        CASE field.fieldKind = "scalar" -> <<Str(scalarTypeScriptType(field.scalar))>>
          [] field.fieldKind = "message" -> <<shapeRef(field.message)>>
          [] field.fieldKind = "list" ->
                <<Str(scalarTypeScriptType(field.scalar)), Str("[]")>>,
     optional |->
        field.proto3Optional \/ field.oneof \/ field.fieldKind = "message"]

\* fieldJsonType(field): the type expression of the JSON form of the field
fieldJsonType(field) ==
    CASE field.fieldKind = "scalar" -> <<Str(scalarJsonType(field.scalar))>>
      [] field.fieldKind = "message" -> <<jsonRef(field.message)>>
      [] field.fieldKind = "list" -> <<Str(scalarJsonType(field.scalar)), Str("[]")>>

\* isWrapperDesc(message): the capability check of the runtime
isWrapperDesc(message) ==
    /\ message.typeName \in WrapperTypeNames
    /\ Len(message.fields) > 0
    /\ message.fields[1].fieldKind = "scalar"
    /\ message.fields[1].name = "value"

(***************************************************************************)
(* Enum Shape Generator                                                    *)
(***************************************************************************)
\* enumValueLines with "indexOf(value) >= 0" for the test of the separator
enumValueLines_blankFirst(enumeration, value) ==
    (IF indexOf(enumeration.values, value) >= 0 THEN <<blank>> ELSE <<>>)
        \o << <<jsDoc(value, "  ")>>,
              <<Str("  "), Str(value.localName), Str(" = "), Num(value.number), Str(",")>> >>

\* the lines generateEnumShape prints for one value of the enumeration
enumValueLines(enumeration, value) ==
    (IF indexOf(enumeration.values, value) > 0 THEN <<blank>> ELSE <<>>)
        \o << <<jsDoc(value, "  ")>>,
              <<Str("  "), Str(value.localName), Str(" = "), Num(value.number), Str(",")>> >>

generateEnumShape(enumeration) ==
    << <<jsDoc(enumeration, "")>>,
       <<export("enum", importShape(enumeration).name), Str(" {")>> >>
        \o Flatten([k \in DOMAIN enumeration.values |->
                        enumValueLines(enumeration, enumeration.values[k])])
        \o << <<Str("}")>>, blank >>

(***************************************************************************)
(* Message Shape Generator                                                 *)
(***************************************************************************)
\* fieldLines without the optional branch: every entry uses ": "
fieldLines_required(message, field) ==
    LET mapped == fieldTypeScriptType(field)
    IN  << <<jsDoc(field, "  ")>>,
           <<Str("  "), Str(field.localName), Str(": ")>> \o mapped.typing \o <<Str(";")>> >>
        \o (IF indexOf(message.fields, field) < Len(message.fields) - 1
            THEN <<blank>> ELSE <<>>)

\* the lines generateMessageJsonShape prints for one field of a record shape
fieldLines(message, field) ==
    LET jsonName == IF field.jsonName = ""
                        \/ startWithNumber(field.jsonName)
                        \/ containsSpecialChar(field.jsonName)
                    THEN string(field.jsonName)
                    ELSE Str(field.jsonName)
        mapped == fieldTypeScriptType(field)
    IN  << <<jsDoc(field, "  ")>>,
           IF mapped.optional
           THEN <<Str("  "), Str(field.localName), Str("?: ")>> \o mapped.typing \o <<Str(";")>>
           ELSE <<Str("  "), Str(field.localName), Str(": ")>> \o mapped.typing \o <<Str(";")>> >>
        \o (IF indexOf(message.fields, field) < Len(message.fields) - 1
            THEN <<blank>> ELSE <<>>)

\* generateMessageJsonShape without the case of google.protobuf.Duration
generateMessageJsonShape_noDuration(message, target) ==
    LET exp == export(IF target = "ts" THEN "type" ELSE "declare type",
                      importShape(message).name)
        body ==
            CASE message.typeName = "google.protobuf.Any" ->
                    << <<exp, Str(" = {")>>, <<Str("  \"@type\"?: string;")>>, <<Str("};")>> >>
              [] message.typeName = "google.protobuf.Timestamp" ->
                    << <<exp, Str(" = string;")>> >>
              [] message.typeName = "google.protobuf.FieldMask" ->
                    << <<exp, Str(" = string;")>> >>
              [] message.typeName = "google.protobuf.Struct" ->
                    << <<exp, Str(" = "), runtime("JsonObject"), Str(";")>> >>
              [] message.typeName = "google.protobuf.Value" ->
                    << <<exp, Str(" = "), runtime("JsonValue"), Str(";")>> >>
              [] message.typeName = "google.protobuf.ListValue" ->
                    << <<exp, Str(" = "), runtime("JsonValue"), Str("[];")>> >>
              [] message.typeName = "google.protobuf.Empty" ->
                    << <<exp, Str(" = Record<string, never>;")>> >>
              [] OTHER ->
                    IF isWrapperDesc(message)
                    THEN << <<exp, Str(" = ")>> \o fieldJsonType(message.fields[1])
                                \o <<Str(";")>> >>
                    ELSE << <<exp, Str(" = {")>> >>
                            \o Flatten([k \in DOMAIN message.fields |->
                                            fieldLines(message, message.fields[k])])
                            \o << <<Str("};")>> >>
    IN  << <<jsDoc(message, "")>> >> \o body \o <<blank>>

generateMessageJsonShape(message, target) ==
    LET exp == export(IF target = "ts" THEN "type" ELSE "declare type",
                      importShape(message).name)
        body ==
            CASE message.typeName = "google.protobuf.Any" ->
                    << <<exp, Str(" = {")>>, <<Str("  \"@type\"?: string;")>>, <<Str("};")>> >>
              [] message.typeName = "google.protobuf.Timestamp" ->
                    << <<exp, Str(" = string;")>> >>
              [] message.typeName = "google.protobuf.Duration" ->
                    << <<exp, Str(" = string;")>> >>
              [] message.typeName = "google.protobuf.FieldMask" ->
                    << <<exp, Str(" = string;")>> >>
              [] message.typeName = "google.protobuf.Struct" ->
                    << <<exp, Str(" = "), runtime("JsonObject"), Str(";")>> >>
              [] message.typeName = "google.protobuf.Value" ->
                    << <<exp, Str(" = "), runtime("JsonValue"), Str(";")>> >>
              [] message.typeName = "google.protobuf.ListValue" ->
                    << <<exp, Str(" = "), runtime("JsonValue"), Str("[];")>> >>
              [] message.typeName = "google.protobuf.Empty" ->
                    << <<exp, Str(" = Record<string, never>;")>> >>
              [] OTHER ->
                    IF isWrapperDesc(message)
                    THEN << <<exp, Str(" = ")>> \o fieldJsonType(message.fields[1])
                                \o <<Str(";")>> >>
                    ELSE << <<exp, Str(" = {")>> >>
                            \o Flatten([k \in DOMAIN message.fields |->
                                            fieldLines(message, message.fields[k])])
                            \o << <<Str("};")>> >>
    IN  << <<jsDoc(message, "")>> >> \o body \o <<blank>>

(***************************************************************************)
(* File descriptor embedding of the second generateTs                      *)
(***************************************************************************)
pure == Str("/*@__PURE__*/")

functionCall(fn, subject, nargs) == Printable("es_call", fn, subject, "", nargs, FALSE)

\* generateDescDoc(f, desc): one documentation block; n is its number of lines
generateDescDoc(desc) ==
    LET lines == IF desc.kind = "message" THEN 2 ELSE 1
    IN  << <<Printable("es_jsdoc", desc.kind, desc.name, "Describes",
                       IF desc.deprecated THEN lines + 1 ELSE lines, desc.deprecated)>> >>

\* getFileDescCall(f, file, schema)
getFileDescCall(file, fromOutside) ==
    IF file.bootable /\ fromOutside
    THEN functionCall("boot", file.name, 1)
    ELSE IF Len(file.dependencies) > 0
         THEN functionCall("fileDesc", file.name, 2)
         ELSE functionCall("fileDesc", file.name, 1)

\* pathInFileDesc(desc): the position of the extension among the extensions of its file
pathInFileDesc(file, k) ==
    Cardinality({j \in 1..(k - 1) : file.types[j].kind = "extension"})

\* the lines the "extension" case of the second generateTs prints
extensionLines(file, k) ==
    LET desc == file.types[k]
        fileDesc == importSchema(file)
        name == importSchema(desc).name
        E == shapeRef(desc.extendee)
        V == fieldTypeScriptType(desc.fields[1]).typing
        call == functionCall("extDesc", fileDesc.name, 1 + pathInFileDesc(file, k))
    IN  << <<jsDoc(desc, "")>>,
           <<export("const", name), Str(": "), runtime("GenExtension"), Str("<"), E,
             Str(", ")>> \o V \o <<Str(">"), Str(" = "), pure>>,
           <<Str("  "), call, Str(";")>>,
           blank >>

(***************************************************************************)
(* State                                                                   *)
(***************************************************************************)
OptionsRecords == [jsonTypes : BOOLEAN]

NoShape == [desc |-> NoDesc, lines |-> <<>>]

\* f.preamble(file): the generated-file header of the unit
preamble(file) == <<Printable("es_preamble", file.name, "", "", 0, file.deprecated)>>

\* schema.generateFile(name): a new, empty output unit
generateFile(name) == [name |-> name, lines |-> <<>>]

\* f.print(...) on the unit created last
print(units, lines) ==
    [units EXCEPT ![Len(units)].lines = @ \o lines]

\* the configurations handed to the plugin together with a descriptor model
FewOptions == {<<>>, <<[key |-> "json_types", value |-> "1"]>>}

Init ==
    /\ \/ options \in SeqsUpTo(OptionPairs, MaxOptions) /\ schema = <<>>
       \/ options \in FewOptions /\ schema \in Schemas
    /\ plugin \in {"es", "part_001"}
    /\ bootstrapWkt \in BOOLEAN
    /\ pc = "parseOptions"
    /\ result = NoResult
    /\ opts = [jsonTypes |-> FALSE]
    /\ out = <<>>
    /\ fi = 1
    /\ ti = 1
    /\ run = 1
    /\ prevOut = <<>>
    /\ prevOpts = [jsonTypes |-> FALSE]
    /\ shape = NoShape

(***************************************************************************)
(* Actions                                                                 *)
(***************************************************************************)
\* createEcmaScriptPlugin calls parseOptions; a throw aborts the invocation
parseOptions_Call ==
    /\ pc = "parseOptions"
    /\ result' = parseOptions(options)
    /\ IF result'.kind = "return"
       THEN /\ opts' = CHOOSE o \in result'.value : TRUE
            /\ pc' = "generateTs"
       ELSE /\ opts' = opts
            /\ pc' = "aborted"
    /\ UNCHANGED <<options, schema, plugin, bootstrapWkt, out, fi, ti, run,
                   prevOut, prevOpts, shape>>

\* generateTs of protoc-gen-es-plugin.ts: the head of the loop over schema.files
generateTs_File ==
    /\ pc = "generateTs"
    /\ plugin = "es"
    /\ fi <= Len(schema)
    /\ LET file == schema[fi]
           f == generateFile(file.name \o "_pb.ts")
       IN  out' = print(Append(out, f), <<preamble(file), blank>>)
    /\ ti' = 1
    /\ pc' = "typesInFile"
    /\ UNCHANGED <<options, result, schema, opts, plugin, bootstrapWkt, fi, run,
                   prevOut, prevOpts, shape>>

\* generateTs_Type without the f.print() after generateEnumShape
generateTs_Type_noBlank ==
    /\ pc = "typesInFile"
    /\ plugin = "es"
    /\ ti <= Len(typesInFile(schema[fi]))
    /\ LET desc == typesInFile(schema[fi])[ti]
       IN  CASE desc.kind = "message" ->
                    LET lines == generateMessageJsonShape(desc, "ts")
                    IN  /\ out' = print(out, lines \o <<blank>>)
                        /\ shape' = [desc |-> desc, lines |-> lines]
             [] desc.kind = "enum" ->
                    LET lines == generateEnumShape(desc)
                    IN  /\ out' = print(out, lines)
                        /\ shape' = [desc |-> desc, lines |-> lines]
             [] OTHER ->
                    /\ out' = out
                    /\ shape' = shape
    /\ ti' = ti + 1
    /\ UNCHANGED <<pc, options, result, schema, opts, plugin, bootstrapWkt, fi, run,
                   prevOut, prevOpts>>

Reverse(s) == [k \in DOMAIN s |-> s[Len(s) + 1 - k]]

\* generateTs_Type with enumeration.values.reverse() before generateEnumShape:
\* the descriptor is reversed in place
generateTs_Type_reverse ==
    /\ pc = "typesInFile"
    /\ plugin = "es"
    /\ ti <= Len(typesInFile(schema[fi]))
    /\ LET desc == typesInFile(schema[fi])[ti]
       IN  CASE desc.kind = "message" ->
                    LET lines == generateMessageJsonShape(desc, "ts")
                    IN  /\ out' = print(out, lines \o <<blank>>)
                        /\ shape' = [desc |-> desc, lines |-> lines]
                        /\ schema' = schema
             [] desc.kind = "enum" ->
                    LET reversed == [desc EXCEPT !.values = Reverse(@)]
                        lines == generateEnumShape(reversed)
                    IN  /\ out' = print(out, lines \o <<blank>>)
                        /\ shape' = [desc |-> reversed, lines |-> lines]
                        /\ schema' = [schema EXCEPT ![fi].types[ti] = reversed]
             [] OTHER ->
                    /\ out' = out
                    /\ shape' = shape
                    /\ schema' = schema
    /\ ti' = ti + 1
    /\ UNCHANGED <<pc, options, result, opts, plugin, bootstrapWkt, fi, run,
                   prevOut, prevOpts>>

\* generateTs_Type with "if (schema.options.jsonTypes)" around the message shape
generateTs_Type_gated ==
    /\ pc = "typesInFile"
    /\ plugin = "es"
    /\ ti <= Len(typesInFile(schema[fi]))
    /\ LET desc == typesInFile(schema[fi])[ti]
       IN  CASE desc.kind = "message" /\ opts.jsonTypes ->
                    LET lines == generateMessageJsonShape(desc, "ts")
                    IN  /\ out' = print(out, lines \o <<blank>>)
                        /\ shape' = [desc |-> desc, lines |-> lines]
             [] desc.kind = "enum" ->
                    LET lines == generateEnumShape(desc)
                    IN  /\ out' = print(out, lines \o <<blank>>)
                        /\ shape' = [desc |-> desc, lines |-> lines]
             [] OTHER ->
                    /\ out' = out
                    /\ shape' = shape
    /\ ti' = ti + 1
    /\ UNCHANGED <<pc, options, result, schema, opts, plugin, bootstrapWkt, fi, run,
                   prevOut, prevOpts>>

\* generateTs of protoc-gen-es-plugin.ts: one pass of the loop over the types
generateTs_Type ==
    /\ pc = "typesInFile"
    /\ plugin = "es"
    /\ ti <= Len(typesInFile(schema[fi]))
    /\ LET desc == typesInFile(schema[fi])[ti]
       IN  CASE desc.kind = "message" ->
                    LET lines == generateMessageJsonShape(desc, "ts")
                    IN  /\ out' = print(out, lines \o <<blank>>)
                        /\ shape' = [desc |-> desc, lines |-> lines]
             [] desc.kind = "enum" ->
                    LET lines == generateEnumShape(desc)
                    IN  /\ out' = print(out, lines \o <<blank>>)
                        /\ shape' = [desc |-> desc, lines |-> lines]
             [] OTHER ->
                    /\ out' = out
                    /\ shape' = shape
    /\ ti' = ti + 1
    /\ UNCHANGED <<pc, options, result, schema, opts, plugin, bootstrapWkt, fi, run,
                   prevOut, prevOpts>>

\* generateTs of part_001: the head of the loop over schema.files
generateTsDesc_File ==
    /\ pc = "generateTs"
    /\ plugin = "part_001"
    /\ fi <= Len(schema)
    /\ LET file == schema[fi]
           f == generateFile(file.name \o "_pb.ts")
           fileDesc == importSchema(file)
       IN  out' = print(Append(out, f),
                        <<preamble(file)>>
                            \o generateDescDoc(file)
                            \o << <<export("const", fileDesc.name), Str(": "),
                                    runtime("GenFile"), Str(" = "), pure>>,
                                  <<Str("  "), getFileDescCall(file, bootstrapWkt), Str(";")>>,
                                  blank >>)
    /\ ti' = 1
    /\ pc' = "typesInFile"
    /\ UNCHANGED <<options, result, schema, opts, plugin, bootstrapWkt, fi, run,
                   prevOut, prevOpts, shape>>

\* generateTs of part_001: one pass of the loop over the types
generateTsDesc_Type ==
    /\ pc = "typesInFile"
    /\ plugin = "part_001"
    /\ ti <= Len(typesInFile(schema[fi]))
    /\ LET desc == typesInFile(schema[fi])[ti]
       IN  CASE desc.kind = "message" ->
                    LET lines == generateMessageJsonShape(desc, "ts")
                    IN  /\ out' = print(out, lines \o <<blank>>)
                        /\ shape' = [desc |-> desc, lines |-> lines]
             [] desc.kind = "enum" ->
                    LET lines == generateEnumShape(desc)
                    IN  /\ out' = print(out, lines \o <<blank>>)
                        /\ shape' = [desc |-> desc, lines |-> lines]
             [] desc.kind = "extension" ->
                    /\ out' = print(out, extensionLines(schema[fi], ti))
                    /\ shape' = shape
    /\ ti' = ti + 1
    /\ UNCHANGED <<pc, options, result, schema, opts, plugin, bootstrapWkt, fi, run,
                   prevOut, prevOpts>>

\* the loop over the types of the file is exhausted
generateTs_NextFile ==
    /\ pc = "typesInFile"
    /\ ti > Len(typesInFile(schema[fi]))
    /\ fi' = fi + 1
    /\ pc' = "generateTs"
    /\ UNCHANGED <<options, result, schema, opts, plugin, bootstrapWkt, out, ti, run,
                   prevOut, prevOpts, shape>>

\* the loop over schema.files is exhausted
generateTs_Return ==
    /\ pc = "generateTs"
    /\ fi > Len(schema)
    /\ pc' = "done"
    /\ UNCHANGED <<options, result, schema, opts, plugin, bootstrapWkt, out, fi, ti, run,
                   prevOut, prevOpts, shape>>

\* the plugin is invoked again on the same descriptor model, with an Options
\* record of its own; the framework starts from no output units
Regenerate ==
    /\ pc = "done"
    /\ run < MaxRuns
    /\ \E o \in OptionsRecords : opts' = o
    /\ prevOut' = out
    /\ prevOpts' = opts
    /\ out' = <<>>
    /\ fi' = 1
    /\ ti' = 1
    /\ run' = run + 1
    /\ shape' = NoShape
    /\ pc' = "generateTs"
    /\ UNCHANGED <<options, result, schema, plugin, bootstrapWkt>>

Next ==
    \/ parseOptions_Call
    \/ generateTs_File
    \/ generateTs_Type
    \/ generateTsDesc_File
    \/ generateTsDesc_Type
    \/ generateTs_NextFile
    \/ generateTs_Return
    \/ Regenerate

Spec == Init /\ [][Next]_vars

TypeOK ==
    /\ pc \in {"parseOptions", "aborted", "generateTs", "typesInFile", "done"}
    /\ opts \in OptionsRecords
    /\ run \in 1..MaxRuns

(***************************************************************************)
(* Reading the emitted lines                                               *)
(***************************************************************************)
RECURSIVE Ascending(_)
Ascending(S) ==
    IF S = {} THEN <<>>
    ELSE LET m == CHOOSE x \in S : \A y \in S : x <= y
         IN  <<m>> \o Ascending(S \ {m})

\* an entry of a record shape: indent, key, marker, type expression, ";"
IsEntry(line) ==
    /\ Len(line) >= 5
    /\ line[1] = Str("  ")
    /\ line[3] \in {Str("?: "), Str(": ")}
    /\ line[Len(line)] = Str(";")

EntryPositions(lines) == Ascending({p \in DOMAIN lines : IsEntry(lines[p])})

\* an entry of an enumeration: indent, name, " = ", number, ","
IsEnumEntry(line) ==
    /\ Len(line) = 5
    /\ line[1] = Str("  ")
    /\ line[3] = Str(" = ")
    /\ line[4].kind = "number"
    /\ line[5] = Str(",")

EnumEntryPositions(lines) == Ascending({p \in DOMAIN lines : IsEnumEntry(lines[p])})

\* the documentation block of the descriptor d, alone on its line
IsDocOf(line, d) ==
    /\ Len(line) = 1
    /\ line[1].kind = "es_jsdoc"
    /\ line[1].a = d.kind
    /\ line[1].b = d.name

IsRecordMessage(d) ==
    /\ d.kind = "message"
    /\ d.typeName \notin WellKnownTypeNames
    /\ ~isWrapperDesc(d)

Offending(pair) ==
    \/ pair.key # "json_types"
    \/ pair.value \notin {"true", "1", "false", "0"}

(***************************************************************************)
(* Option Parser                                                           *)
(***************************************************************************)
\* C1: when every pair has the key json_types and one of the values "true",
\* "1", "false", "0", parseOptions returns an Options record and throws
\* nothing; jsonTypes is true iff the value of the last pair is "true" or
\* "1", and false for the empty sequence.
C1_ValidOptionsParse ==
    (pc # "parseOptions" /\ \A k \in DOMAIN options : ~Offending(options[k]))
        => /\ result.kind = "return"
           /\ result.thrown = NoThrow
           /\ result.value =
                {[jsonTypes |-> /\ Len(options) > 0
                                /\ options[Len(options)].value \in {"true", "1"}]}

C1_Witness ==
    /\ pc # "parseOptions"
    /\ Len(options) = 3
    /\ options[1].value = "true"
    /\ options[2].value = "1"
    /\ options[3] = [key |-> "json_types", value |-> "0"]
    /\ result.value = {[jsonTypes |-> FALSE]}

\* C2: when some pair is offending, parseOptions returns no Options record
\* and throws what the first offending pair decides: the message "please
\* provide true or false" for a json_types pair with another value, an Error
\* without message for any other key.
C2_FirstOffendingPairDecides ==
    (pc # "parseOptions" /\ \E k \in DOMAIN options : Offending(options[k]))
        => LET first == CHOOSE k \in DOMAIN options :
                            /\ Offending(options[k])
                            /\ \A j \in 1..(k - 1) : ~Offending(options[j])
           IN  /\ result.kind = "throw"
               /\ result.value = {}
               /\ pc = "aborted"
               /\ result.thrown =
                    IF options[first].key = "json_types"
                    THEN [type |-> "string", message |-> "please provide true or false"]
                    ELSE [type |-> "Error", message |-> ""]

C2_Witness ==
    /\ pc = "aborted"
    /\ Len(options) = 3
    /\ options[1] = [key |-> "json_types", value |-> "true"]
    /\ options[2] = [key |-> "unknown", value |-> "x"]
    /\ options[3] = [key |-> "json_types", value |-> "True"]
    /\ result.thrown.type = "Error"

(***************************************************************************)
(* Message Shape Generator                                                 *)
(***************************************************************************)
\* the key the sanitizer rule renders for a JSON name
RenderedKey(jsonName) ==
    IF \/ jsonName = ""
       \/ (Len(Chars(jsonName)) > 0 /\ Chars(jsonName)[1] \in DigitChars)
       \/ \E k \in DOMAIN Chars(jsonName) :
            Chars(jsonName)[k] \notin LetterChars \cup DigitChars \cup {"_", "$"}
    THEN string(jsonName)
    ELSE Str(jsonName)

\* C3: in the record shape of a message that is neither well-known nor a
\* wrapper, the key of the entry of each field is the field's JSON name, a
\* quoted literal iff the name is empty, starts with a digit or has a
\* character outside letters, digits, "_" and "$", a bare identifier otherwise.
C3_KeyIsSanitizedJsonName ==
    IsRecordMessage(shape.desc)
        => LET ps == EntryPositions(shape.lines)
           IN  /\ Len(ps) = Len(shape.desc.fields)
               /\ \A k \in DOMAIN ps :
                    shape.lines[ps[k]][2] = RenderedKey(shape.desc.fields[k].jsonName)

\* C4: the record shape of a message that is neither well-known nor a
\* wrapper has exactly one entry per declared field, in declared order, each
\* after the documentation block of its field; entry k carries the type
\* expression fieldTypeScriptType gives for field k and the marker "?:" iff
\* the optional flag of field k is true; a message without fields gives an
\* empty record.
C4_OneEntryPerField ==
    IsRecordMessage(shape.desc)
        => LET ps == EntryPositions(shape.lines)
               fs == shape.desc.fields
               n == Len(shape.lines)
           IN  /\ Len(ps) = Len(fs)
               /\ shape.lines[2] = <<export("type", shape.desc.name), Str(" = {")>>
               /\ shape.lines[n - 1] = <<Str("};")>>
               /\ Len(fs) = 0 => n = 4
               /\ \A k \in DOMAIN ps :
                    LET entry == shape.lines[ps[k]]
                    IN  /\ IsDocOf(shape.lines[ps[k] - 1], fs[k])
                        /\ SubSeq(entry, 4, Len(entry) - 1)
                                = fieldTypeScriptType(fs[k]).typing
                        /\ (entry[3] = Str("?: ")) <=> fieldTypeScriptType(fs[k]).optional

C4_Witness ==
    /\ IsRecordMessage(shape.desc)
    /\ Len(shape.desc.fields) = 2
    /\ shape.desc.fields[1].name = "name"
    /\ shape.desc.fields[2].name = "id"
    /\ Len(EntryPositions(shape.lines)) = 2
    /\ shape.lines[EntryPositions(shape.lines)[2]][3] = Str("?: ")

\* C6: the declaration of a wrapper message is no record shape and has no
\* envelope key: it is the type expression that the mapper of the record
\* entries, fieldTypeScriptType, gives for fields[0].
C6_WrapperCollapsesToMappedField ==
    (shape.desc.kind = "message" /\ shape.desc.typeName \notin WellKnownTypeNames
            /\ isWrapperDesc(shape.desc))
        => /\ EntryPositions(shape.lines) = <<>>
           /\ Len(shape.lines) = 3
           /\ shape.lines[2] =
                <<export("type", shape.desc.name), Str(" = ")>>
                    \o fieldTypeScriptType(shape.desc.fields[1]).typing
                    \o <<Str(";")>>

\* the fixed shape of a well-known type
FixedShape(typeName, exp) ==
    CASE typeName = "google.protobuf.Any" ->
            << <<exp, Str(" = {")>>, <<Str("  \"@type\"?: string;")>>, <<Str("};")>> >>
      [] typeName \in {"google.protobuf.Timestamp", "google.protobuf.Duration",
                       "google.protobuf.FieldMask"} ->
            << <<exp, Str(" = string;")>> >>
      [] typeName = "google.protobuf.Struct" ->
            << <<exp, Str(" = "), runtime("JsonObject"), Str(";")>> >>
      [] typeName = "google.protobuf.Value" ->
            << <<exp, Str(" = "), runtime("JsonValue"), Str(";")>> >>
      [] typeName = "google.protobuf.ListValue" ->
            << <<exp, Str(" = "), runtime("JsonValue"), Str("[];")>> >>
      [] typeName = "google.protobuf.Empty" ->
            << <<exp, Str(" = Record<string, never>;")>> >>

\* C7: for a message with one of the eight well-known names the name
\* dispatch comes first: whatever its fields, no field entry is emitted and
\* the declaration is the documentation block, the fixed shape of the name
\* and a blank line.
C7_WellKnownNamesAreFixed ==
    (shape.desc.kind = "message" /\ shape.desc.typeName \in WellKnownTypeNames)
        => /\ EntryPositions(shape.lines) = <<>>
           /\ \A p \in DOMAIN shape.lines :
                \A k \in DOMAIN shape.desc.fields :
                    ~IsDocOf(shape.lines[p], shape.desc.fields[k])
           /\ shape.lines =
                << <<jsDoc(shape.desc, "")>> >>
                    \o FixedShape(shape.desc.typeName, export("type", shape.desc.name))
                    \o <<blank>>

C7_Witness ==
    /\ shape.desc.typeName = "google.protobuf.Any"
    /\ Len(shape.desc.fields) = 2
    /\ Len(shape.lines) = 5

(***************************************************************************)
(* Enum Shape Generator                                                    *)
(***************************************************************************)
\* C5: generateEnumShape emits one "name = number" entry per declared value,
\* in declared order and with the declared number; each entry directly
\* follows the documentation block of its value, exactly one blank line
\* separates consecutive entries, no blank line precedes the first one, and
\* deprecation changes neither order nor numbers.
C5_EnumValuesInDeclaredOrder ==
    shape.desc.kind = "enum"
        => LET ps == EnumEntryPositions(shape.lines)
               vs == shape.desc.values
           IN  /\ Len(ps) = Len(vs)
               /\ shape.lines[2] = <<export("enum", shape.desc.name), Str(" {")>>
               /\ \A k \in DOMAIN ps :
                    /\ shape.lines[ps[k]][2] = Str(vs[k].localName)
                    /\ shape.lines[ps[k]][4] = Num(vs[k].number)
                    /\ IsDocOf(shape.lines[ps[k] - 1], vs[k])
                    /\ IF k = 1
                       THEN ps[k] = 4
                       ELSE /\ ps[k] = ps[k - 1] + 3
                            /\ shape.lines[ps[k] - 2] = blank
               /\ \A p \in 3..(Len(shape.lines) - 2) :
                    shape.lines[p] = blank => \E k \in 2..Len(ps) : p = ps[k] - 2

C5_Witness ==
    /\ shape.desc.kind = "enum"
    /\ shape.desc.deprecated
    /\ Len(shape.desc.values) = 2
    /\ shape.desc.values[1].name = "ALIAS"
    /\ shape.desc.values[2].name = "TEN"
    /\ Len(EnumEntryPositions(shape.lines)) = 2

(***************************************************************************)
(* File Emitter                                                            *)
(***************************************************************************)
\* the lines of a unit after its header, which ends with the first blank line
AfterHeader(lines) ==
    LET first == CHOOSE p \in DOMAIN lines :
                    /\ lines[p] = blank
                    /\ \A j \in 1..(p - 1) : lines[j] # blank
    IN  SubSeq(lines, first + 1, Len(lines))

\* the text of a message or enum declaration, followed by a blank line
ShapeDeclaration(desc) ==
    CASE desc.kind = "message" -> generateMessageJsonShape(desc, "ts") \o <<blank>>
      [] desc.kind = "enum" -> generateEnumShape(desc) \o <<blank>>
      [] OTHER -> <<>>

\* the text of type k of the file: a shape declaration, or the constant of an
\* extension where generateTs declares extensions
Declaration(file, k) ==
    IF file.types[k].kind = "extension" /\ plugin = "part_001"
    THEN extensionLines(file, k)
    ELSE ShapeDeclaration(file.types[k])

\* the number of types of file i whose pass of the loop is over
TypesDone(i) == IF pc = "typesInFile" /\ i = fi THEN ti - 1 ELSE Len(schema[i].types)

====
